---- MODULE Spec2Model ----
(***************************************************************************)
(* Heat Sink Thermal Analysis API (src/app/main.py) and the stand-alone    *)
(* ThermalModel (src/app/thermal_model.py).                                *)
(*                                                                         *)
(* Python floats are modelled as decimal floating-point numbers with a     *)
(* six-digit mantissa: a number is a record [m, e] standing for m * 10^e,  *)
(* with m = 0 or 100000 <= |m| <= 999999.  Every arithmetic operation      *)
(* rounds its result to six digits, as every Python float operation rounds *)
(* its result to 53 bits.                                                  *)
(***************************************************************************)
EXTENDS Integers, Sequences, FiniteSets, TLC

----------------------------------------------------------------------------
(* Decimal floating point *)

P10 == <<1, 10, 100, 1000, 10000, 100000, 1000000, 10000000, 100000000, 1000000000>>

Pow10(k) == P10[k + 1]

Abs(i) == IF i < 0 THEN -i ELSE i

Sgn(i) == IF i < 0 THEN -1 ELSE 1

\* the number of decimal digits of a > 0
NDigits(a) ==
    IF a < 1000000
    THEN IF a < 1000
         THEN IF a < 10 THEN 1 ELSE IF a < 100 THEN 2 ELSE 3
         ELSE IF a < 10000 THEN 4 ELSE IF a < 100000 THEN 5 ELSE 6
    ELSE IF a < 100000000
         THEN IF a < 10000000 THEN 7 ELSE 8
         ELSE IF a < 1000000000 THEN 9 ELSE 10

Zero == [m |-> 0, e |-> 0]

\* the float nearest to q * 10^e
Norm(q, e) ==
    IF q = 0 THEN Zero
    ELSE LET a == Abs(q)
             n == NDigits(a)
         IN  IF n <= 6
             THEN [m |-> q * Pow10(6 - n), e |-> e - (6 - n)]
             ELSE LET k == n - 6
                      r == (a + (Pow10(k) \div 2)) \div Pow10(k)
                  IN  IF r = 1000000
                      THEN [m |-> Sgn(q) * 100000, e |-> e + k + 1]
                      ELSE [m |-> Sgn(q) * r, e |-> e + k]

\* a float literal: Dec(525, -4) is 0.0525
Dec(m, e) == Norm(m, e)

\* float(i) of a Python int
ToF(i) == Norm(i, 0)

FNeg(a) == [m |-> -a.m, e |-> a.e]

FMul(a, b) ==
    IF a.m = 0 \/ b.m = 0 THEN Zero
    ELSE LET x == Abs(a.m)
             y == Abs(b.m)
             xh == x \div 1000
             xl == x % 1000
             yh == y \div 1000
             yl == y % 1000
             q == xh * yh * 1000 + xh * yl + xl * yh + ((xl * yl) \div 1000)
         IN  Norm(Sgn(a.m) * Sgn(b.m) * q, a.e + b.e + 3)

\* b is not zero: a zero divisor raises ZeroDivisionError before the division
FDiv(a, b) ==
    IF a.m = 0 THEN Zero
    ELSE LET x == Abs(a.m)
             y == Abs(b.m)
             q0 == x \div y
             r0 == x % y
             d1 == (r0 * 1000) \div y
             r1 == (r0 * 1000) % y
             d2 == (r1 * 1000) \div y
             r2 == (r1 * 1000) % y
             d3 == (r2 * 10) \div y
             q == ((q0 * 1000 + d1) * 1000 + d2) * 10 + d3
         IN  Norm(Sgn(a.m) * Sgn(b.m) * q, a.e - b.e - 7)

FAdd(a, b) ==
    IF a.m = 0 THEN b
    ELSE IF b.m = 0 THEN a
    ELSE LET hi == IF a.e >= b.e THEN a ELSE b
             lo == IF a.e >= b.e THEN b ELSE a
             d == hi.e - lo.e
         IN  IF d > 9 THEN hi
             ELSE LET s == IF d <= 3
                           THEN lo.m * Pow10(3 - d)
                           ELSE Sgn(lo.m) * (Abs(lo.m) \div Pow10(d - 3))
                  IN  Norm(hi.m * 1000 + s, hi.e - 3)

FSub(a, b) == FAdd(a, FNeg(b))

\* a < b
FLt(a, b) ==
    IF a.m = 0 THEN b.m > 0
    ELSE IF b.m = 0 THEN a.m < 0
    ELSE IF (a.m < 0) # (b.m < 0) THEN a.m < 0
    ELSE IF a.e = b.e THEN a.m < b.m
    ELSE IF a.m > 0 THEN a.e < b.e
    ELSE a.e > b.e

FIsZero(a) == a.m = 0

FSq(a) == FMul(a, a)

\* a^n for n >= 1, by repeated squaring
RECURSIVE FPowInt(_, _)
FPowInt(a, n) ==
    IF n = 1 THEN a
    ELSE IF n % 2 = 0 THEN FSq(FPowInt(a, n \div 2))
    ELSE FMul(FPowInt(a, n - 1), a)

\* cap on the Newton steps of one root extraction
MaxNewton == 40

\* one Newton step for x^n = c
NewtonStep(c, n, x) ==
    FDiv(FAdd(FMul(ToF(n - 1), x), FDiv(c, FPowInt(x, n - 1))), ToF(n))

RECURSIVE NewtonRoot(_, _, _, _)

\* y is the step after x: the iteration stops when it no longer decreases
NewtonNext(c, n, x, y, k) ==
    IF k = 0 \/ ~FLt(y, x) THEN x ELSE NewtonRoot(c, n, y, k - 1)

NewtonRoot(c, n, x, k) == NewtonNext(c, n, x, NewtonStep(c, n, x), k)

\* the least integer not below 10^((r + 1) / n): the first guess of the n-th
\* root of a number in [10^r, 10^(r + 1))
FirstGuess(n, r) ==
    CASE n = 3 -> <<3, 5, 10>>[r + 1]
      [] n = 5 -> <<2, 3, 4, 7, 10>>[r + 1]
      [] n = 10 -> <<2, 2, 2, 3, 4, 4, 6, 7, 8, 10>>[r + 1]
      [] OTHER -> 10

\* x * 10^q
Scale(x, q) == [m |-> x.m, e |-> x.e + q]

\* the root of the mantissa part c of a number, scaled by the root 10^q of
\* its exponent part
RootOf(c, n, r, q) == Scale(NewtonRoot(c, n, ToF(FirstGuess(n, r)), MaxNewton), q)

\* the n-th root of a > 0, n in 1..10: Newton's iteration from above
Root(a, n) ==
    RootOf([m |-> a.m, e |-> ((a.e + 5) % n) - 5], n, (a.e + 5) % n, (a.e + 5) \div n)

\* math.pow(a, p/q) for a >= 0
Pow(a, p, q) == IF a.m = 0 THEN Zero ELSE Root(FPowInt(a, p), q)

\* round(a, nd)
Round(a, nd) ==
    IF a.m = 0 \/ a.e >= -nd THEN a
    ELSE LET k == (-nd) - a.e
         IN  IF k > 6 THEN Zero
             ELSE Norm(Sgn(a.m) * ((Abs(a.m) + (Pow10(k) \div 2)) \div Pow10(k)), -nd)

----------------------------------------------------------------------------
(* src/app/main.py: ThermalParameters and ThermalModel *)

ParamNames ==
    {"die_length", "die_width", "die_thickness", "tdp",
     "sink_length", "sink_width", "base_thickness",
     "num_fins", "fin_thickness", "overall_height", "fin_height",
     "k_aluminum", "k_tim", "tim_thickness",
     "k_air", "kinematic_viscosity", "prandtl_number",
     "air_velocity", "ambient_temp", "r_jc"}

\* the dataclass defaults
ThermalParameters ==
    [die_length |-> Dec(525, -4),
     die_width |-> Dec(45, -3),
     die_thickness |-> Dec(22, -4),
     tdp |-> Dec(150, 0),
     sink_length |-> Dec(9, -2),
     sink_width |-> Dec(116, -3),
     base_thickness |-> Dec(25, -4),
     num_fins |-> 60,
     fin_thickness |-> Dec(8, -4),
     overall_height |-> Dec(27, -3),
     fin_height |-> Dec(245, -4),
     k_aluminum |-> Dec(167, 0),
     k_tim |-> Dec(4, 0),
     tim_thickness |-> Dec(1, -4),
     k_air |-> Dec(262, -4),
     kinematic_viscosity |-> Dec(1568, -8),
     prandtl_number |-> Dec(71, -2),
     air_velocity |-> Dec(1, 0),
     ambient_temp |-> Dec(25, 0),
     r_jc |-> Dec(2, -1)]

LAMINAR_THRESHOLD == ToF(2300)

die_area(p) == FMul(p.die_length, p.die_width)

base_area(p) == FMul(p.sink_length, p.sink_width)

fin_spacing(p) ==
    LET total_fin_width == FMul(ToF(p.num_fins), p.fin_thickness)
    IN  FDiv(FSub(p.sink_width, total_fin_width), ToF(p.num_fins - 1))

reynolds_number(p) == FDiv(FMul(p.air_velocity, fin_spacing(p)), p.kinematic_viscosity)

\* flow_regime with the threshold itself counted as laminar
flow_regime_le(p) ==
    IF ~FLt(LAMINAR_THRESHOLD, reynolds_number(p)) THEN "Laminar" ELSE "Turbulent"

flow_regime(p) ==
    IF FLt(reynolds_number(p), LAMINAR_THRESHOLD) THEN "Laminar" ELSE "Turbulent"

\* the argument of math.pow in the laminar branch of nusselt_number
laminar_term(re, pr, spacing, sink_length) ==
    FDiv(FMul(FMul(FMul(re, pr), ToF(2)), spacing), sink_length)

\* the laminar branch of nusselt_number
nusselt_laminar(re, pr, spacing, sink_length) ==
    FMul(Dec(186, -2), Pow(laminar_term(re, pr, spacing, sink_length), 1, 3))

\* the turbulent branch of nusselt_number
nusselt_turbulent(re, pr) == FMul(FMul(Dec(23, -3), Pow(re, 4, 5)), Pow(pr, 3, 10))

nusselt_number(p) ==
    LET re == reynolds_number(p)
        pr == p.prandtl_number
    IN  IF FLt(re, LAMINAR_THRESHOLD)
        THEN nusselt_laminar(re, pr, fin_spacing(p), p.sink_length)
        ELSE nusselt_turbulent(re, pr)

convection_coefficient(p) ==
    FDiv(FMul(nusselt_number(p), p.k_air), FMul(ToF(2), fin_spacing(p)))

\* single_fin_area without the fin tip
single_fin_area_no_tip(p) == FMul(FMul(ToF(2), p.fin_height), p.sink_length)

single_fin_area(p) ==
    FMul(FAdd(FMul(ToF(2), p.fin_height), p.fin_thickness), p.sink_length)

total_fin_area(p) == FMul(single_fin_area(p), ToF(p.num_fins))

base_exposed_area(p) ==
    FMul(p.sink_length, FSub(p.sink_width, FMul(ToF(p.num_fins), p.fin_thickness)))

total_convection_area(p) == FAdd(total_fin_area(p), base_exposed_area(p))

r_tim(p) == FDiv(p.tim_thickness, FMul(p.k_tim, die_area(p)))

r_conduction(p) == FDiv(p.base_thickness, FMul(p.k_aluminum, die_area(p)))

\* r_convection without the reciprocal
r_convection_product(p) == FMul(convection_coefficient(p), total_convection_area(p))

r_convection(p) == FDiv(ToF(1), FMul(convection_coefficient(p), total_convection_area(p)))

\* r_heatsink without the conduction through the base
r_heatsink_no_conduction(p) == r_convection(p)

r_heatsink(p) == FAdd(r_conduction(p), r_convection(p))

\* total_resistance without the junction-to-case resistance
total_resistance_no_jc(p) == FAdd(r_tim(p), r_heatsink(p))

total_resistance(p) == FAdd(FAdd(p.r_jc, r_tim(p)), r_heatsink(p))

\* junction_temperature without the power factor
junction_temperature_no_tdp(p) == FAdd(p.ambient_temp, total_resistance(p))

junction_temperature(p) == FAdd(p.ambient_temp, FMul(p.tdp, total_resistance(p)))

\* the exception calculate() raises on p, "none" when it returns: the
\* divisions and math.pow calls in the order calculate() reaches them
Raised(p) ==
    IF p.num_fins - 1 = 0 THEN "ZeroDivisionError"
    ELSE IF FIsZero(FMul(p.k_tim, die_area(p))) THEN "ZeroDivisionError"
    ELSE IF FIsZero(FMul(p.k_aluminum, die_area(p))) THEN "ZeroDivisionError"
    ELSE IF FIsZero(p.kinematic_viscosity) THEN "ZeroDivisionError"
    ELSE IF FLt(reynolds_number(p), LAMINAR_THRESHOLD) /\ FIsZero(p.sink_length)
         THEN "ZeroDivisionError"
    ELSE IF FLt(reynolds_number(p), LAMINAR_THRESHOLD)
            /\ laminar_term(reynolds_number(p), p.prandtl_number,
                            fin_spacing(p), p.sink_length).m < 0
         THEN "ValueError"
    ELSE IF ~FLt(reynolds_number(p), LAMINAR_THRESHOLD) /\ p.prandtl_number.m < 0
         THEN "ValueError"
    ELSE IF FIsZero(FMul(ToF(2), fin_spacing(p))) THEN "ZeroDivisionError"
    ELSE IF FIsZero(FMul(convection_coefficient(p), total_convection_area(p)))
         THEN "ZeroDivisionError"
    ELSE "none"

calculate(p) ==
    [inputs |->
        [processor |->
            [die_length_m |-> p.die_length,
             die_width_m |-> p.die_width,
             die_area_m2 |-> Round(die_area(p), 6),
             tdp_W |-> p.tdp],
         heatsink |->
            [sink_length_m |-> p.sink_length,
             sink_width_m |-> p.sink_width,
             base_thickness_m |-> p.base_thickness,
             num_fins |-> p.num_fins,
             fin_thickness_m |-> p.fin_thickness,
             fin_height_m |-> p.fin_height,
             fin_spacing_m |-> Round(fin_spacing(p), 6),
             material |-> "Aluminum (Al 6061-T6)",
             k_aluminum_W_mK |-> p.k_aluminum],
         thermal_interface |->
            [material |-> "Thermal Grease",
             k_tim_W_mK |-> p.k_tim,
             thickness_m |-> p.tim_thickness],
         cooling |->
            [medium |-> "Air",
             ambient_temp_C |-> p.ambient_temp,
             air_velocity_m_s |-> p.air_velocity,
             k_air_W_mK |-> p.k_air,
             kinematic_viscosity_m2_s |-> p.kinematic_viscosity,
             prandtl_number |-> p.prandtl_number]],
     results |->
        [junction_temperature_C |-> Round(junction_temperature(p), 2),
         total_resistance_C_W |-> Round(total_resistance(p), 6)],
     physics_debug |->
        [flow_analysis |->
            [reynolds_number |-> Round(reynolds_number(p), 6),
             flow_regime |-> flow_regime(p),
             nusselt_number |-> Round(nusselt_number(p), 6),
             convection_coefficient_W_m2K |-> Round(convection_coefficient(p), 6)],
         surface_areas |->
            [single_fin_area_m2 |-> Round(single_fin_area(p), 6),
             total_fin_area_m2 |-> Round(total_fin_area(p), 6),
             base_exposed_area_m2 |-> Round(base_exposed_area(p), 6),
             total_convection_area_m2 |-> Round(total_convection_area(p), 6)],
         thermal_resistances |->
            [R_jc_C_W |-> Round(p.r_jc, 6),
             R_tim_C_W |-> Round(r_tim(p), 6),
             R_cond_C_W |-> Round(r_conduction(p), 6),
             R_conv_C_W |-> Round(r_convection(p), 6),
             R_heatsink_C_W |-> Round(r_heatsink(p), 6),
             R_total_C_W |-> Round(total_resistance(p), 6)]]]

----------------------------------------------------------------------------
(* src/app/thermal_model.py: ThermalModel *)

\* the keyword defaults of __init__
ThermalModelDefaults == [ThermalParameters EXCEPT !.kinematic_viscosity = Dec(157, -7)]

calculate_die_area(p) == FMul(p.die_length, p.die_width)

calculate_base_area(p) == FMul(p.sink_length, p.sink_width)

calculate_fin_spacing(p) ==
    LET total_fin_width == FMul(ToF(p.num_fins), p.fin_thickness)
    IN  FDiv(FSub(p.sink_width, total_fin_width), ToF(p.num_fins - 1))

calculate_r_tim(p) == FDiv(p.tim_thickness, FMul(p.k_tim, calculate_die_area(p)))

calculate_r_conduction(p) == FDiv(p.base_thickness, FMul(p.k_aluminum, calculate_die_area(p)))

calculate_reynolds_number(p) ==
    FDiv(FMul(p.air_velocity, calculate_fin_spacing(p)), p.kinematic_viscosity)

calculate_nusselt_number(p) ==
    LET re == calculate_reynolds_number(p)
        pr == p.prandtl_number
        spacing == calculate_fin_spacing(p)
    IN  IF FLt(re, ToF(2300))
        THEN FMul(Dec(186, -2),
                  Pow(FDiv(FMul(FMul(FMul(re, pr), ToF(2)), spacing), p.sink_length), 1, 3))
        ELSE FMul(FMul(Dec(23, -3), Pow(re, 4, 5)), Pow(pr, 3, 10))

\* calculate_convection_coefficient over the spacing, not twice the spacing
calculate_convection_coefficient_single(p) ==
    FDiv(FMul(calculate_nusselt_number(p), p.k_air), calculate_fin_spacing(p))

calculate_convection_coefficient(p) ==
    FDiv(FMul(calculate_nusselt_number(p), p.k_air), FMul(ToF(2), calculate_fin_spacing(p)))

\* the local base_exposed_area of calculate_total_convection_area
calculate_base_exposed_area(p) ==
    FSub(calculate_base_area(p), FMul(FMul(ToF(p.num_fins), p.fin_thickness), p.sink_length))

calculate_total_convection_area(p) ==
    LET single_fin == FMul(FMul(ToF(2), p.fin_height), p.sink_length)
        total_fin == FMul(single_fin, ToF(p.num_fins))
    IN  FAdd(total_fin, calculate_base_exposed_area(p))

calculate_r_convection(p) ==
    FDiv(ToF(1), FMul(calculate_convection_coefficient(p), calculate_total_convection_area(p)))

calculate_r_heatsink(p) == FAdd(calculate_r_conduction(p), calculate_r_convection(p))

calculate_total_resistance(p) == FAdd(FAdd(p.r_jc, calculate_r_tim(p)), calculate_r_heatsink(p))

calculate_junction_temperature(p) ==
    FAdd(p.ambient_temp, FMul(p.tdp, calculate_total_resistance(p)))

get_flow_regime(p) ==
    IF FLt(calculate_reynolds_number(p), ToF(2300)) THEN "Laminar" ELSE "Turbulent"

get_full_analysis(p) ==
    [input_parameters |->
        [die_length_m |-> p.die_length,
         die_width_m |-> p.die_width,
         die_area_m2 |-> calculate_die_area(p),
         tdp_w |-> p.tdp,
         sink_length_m |-> p.sink_length,
         sink_width_m |-> p.sink_width,
         base_thickness_m |-> p.base_thickness,
         num_fins |-> p.num_fins,
         fin_thickness_m |-> p.fin_thickness,
         fin_height_m |-> p.fin_height,
         fin_spacing_m |-> calculate_fin_spacing(p),
         ambient_temp_c |-> p.ambient_temp,
         air_velocity_m_s |-> p.air_velocity],
     thermal_resistances |->
        [r_jc_c_per_w |-> p.r_jc,
         r_tim_c_per_w |-> calculate_r_tim(p),
         r_conduction_c_per_w |-> calculate_r_conduction(p),
         r_convection_c_per_w |-> calculate_r_convection(p),
         r_heatsink_c_per_w |-> calculate_r_heatsink(p),
         r_total_c_per_w |-> calculate_total_resistance(p)],
     heat_transfer |->
        [reynolds_number |-> calculate_reynolds_number(p),
         flow_regime |-> get_flow_regime(p),
         nusselt_number |-> calculate_nusselt_number(p),
         convection_coefficient_w_m2k |-> calculate_convection_coefficient(p),
         total_convection_area_m2 |-> calculate_total_convection_area(p)],
     results |->
        [junction_temperature_c |-> calculate_junction_temperature(p)]]

----------------------------------------------------------------------------
(* src/app/main.py: the Flask handlers of /analyze *)

\* number of requests the server handles at the same time
NumRequests == 2

Requests == 1..NumRequests

\* the empty dict
Empty == [k \in {} |-> 0]

\* ThermalParameters(**kwargs): the defaults, overridden by the keywords given
ThermalParametersInit(kwargs) ==
    [k \in ParamNames |-> IF k \in DOMAIN kwargs THEN kwargs[k] ELSE ThermalParameters[k]]

\* ThermalModel(**kwargs): the value of self.params
ThermalModel_init(kwargs) == ThermalParametersInit(kwargs)

\* allowed_params with one name left out
allowed_params_no_tdp ==
    {"die_length", "die_width", "die_thickness",
     "sink_length", "sink_width", "base_thickness",
     "num_fins", "fin_thickness", "overall_height", "fin_height",
     "k_aluminum", "k_tim", "tim_thickness",
     "k_air", "kinematic_viscosity", "prandtl_number",
     "air_velocity", "ambient_temp", "r_jc"}

allowed_params ==
    {"die_length", "die_width", "die_thickness", "tdp",
     "sink_length", "sink_width", "base_thickness",
     "num_fins", "fin_thickness", "overall_height", "fin_height",
     "k_aluminum", "k_tim", "tim_thickness",
     "k_air", "kinematic_viscosity", "prandtl_number",
     "air_velocity", "ambient_temp", "r_jc"}

\* data = request.get_json() or {}
get_json_or_empty(req) == IF req.json THEN req.data ELSE Empty

\* params = {k: v for k, v in data.items() if k in allowed_params}
filter_params(data) == [k \in (DOMAIN data) \cap allowed_params |-> data[k]]

\* one model object shared by all handlers
ModelRef_shared(r) == 1

\* the model object a handler holds in its local variable `model`
ModelRef(r) == r

\* jsonify(model.calculate()), or the 500 answer to the exception it raises
Respond(p) ==
    IF Raised(p) = "none"
    THEN [status |-> 200, json |-> calculate(p), error |-> "none"]
    ELSE [status |-> 500, json |-> Empty, error |-> Raised(p)]

\* the example body of GET /
ExampleBody == [tdp |-> ToF(200), air_velocity |-> ToF(2), num_fins |-> 80]

\* JSON objects a client posts: known fields, with or without an unknown one
PostObjects ==
    {Empty,
     ExampleBody,
     [num_fins |-> 0],
     [num_fins |-> 1],
     [num_fins |-> 145],
     [num_fins |-> 146],
     [fan_model |-> 1],
     ExampleBody @@ [fan_model |-> 1]}

\* the bodies of POST /analyze: no JSON body, or a JSON object
PostBodies ==
    {[json |-> FALSE, data |-> Empty]} \cup {[json |-> TRUE, data |-> d] : d \in PostObjects}

NoRequest == [method |-> "none", json |-> FALSE, data |-> Empty]

NoResponse == [status |-> 0, json |-> Empty, error |-> "none"]

----------------------------------------------------------------------------
(* A parameter study: the properties of ThermalModel objects that differ in *)
(* one keyword *)

MaxVelStep == 8

MaxTdpStep == 3

\* air velocities 0.5, 1.0, ... m/s
Velocities == {FDiv(ToF(k), ToF(2)) : k \in 1..MaxVelStep}

\* 50, 100, ... W
Tdps == {ToF(50 * k) : k \in 1..MaxTdpStep}

\* heat sink designs that fit in the default sink width
Designs ==
    {[num_fins |-> 6, fin_thickness |-> Dec(4, -3), kinematic_viscosity |-> Dec(16, -6)],
     [num_fins |-> 10, fin_thickness |-> Dec(8, -4), kinematic_viscosity |-> Dec(1568, -8)],
     [num_fins |-> 60, fin_thickness |-> Dec(8, -4), kinematic_viscosity |-> Dec(1568, -8)],
     [num_fins |-> 80, fin_thickness |-> Dec(8, -4), kinematic_viscosity |-> Dec(1568, -8)]}

StudyGrid ==
    {ThermalModel_init(d @@ [air_velocity |-> v, tdp |-> t]) :
        d \in Designs, v \in Velocities, t \in Tdps}

\* the values of the properties of ThermalModel(params)
properties(p) ==
    IF Raised(p) # "none" THEN [error |-> Raised(p)]
    ELSE [error |-> "none",
          die_area |-> die_area(p),
          base_area |-> base_area(p),
          fin_spacing |-> fin_spacing(p),
          reynolds_number |-> reynolds_number(p),
          flow_regime |-> flow_regime(p),
          nusselt_number |-> nusselt_number(p),
          convection_coefficient |-> convection_coefficient(p),
          single_fin_area |-> single_fin_area(p),
          total_fin_area |-> total_fin_area(p),
          base_exposed_area |-> base_exposed_area(p),
          total_convection_area |-> total_convection_area(p),
          r_tim |-> r_tim(p),
          r_conduction |-> r_conduction(p),
          r_convection |-> r_convection(p),
          r_heatsink |-> r_heatsink(p),
          total_resistance |-> total_resistance(p),
          junction_temperature |-> junction_temperature(p)]

----------------------------------------------------------------------------

VARIABLES
    pc,         \* per request: "idle", "model" (model built), "done" (answered)
    request,    \* per request: the method and JSON body received
    models,     \* the ThermalModel objects: self.params, by reference
    response,   \* per request: the answer sent
    sParams,    \* study: the parameter set of the current ThermalModel
    sMain,      \* study: its properties by src/app/main.py, Empty before evaluation
    sRef,       \* study: its analysis by src/app/thermal_model.py, Empty before
    sPrev       \* study: the previous parameter set and its properties

vars == <<pc, request, models, response, sParams, sMain, sRef, sPrev>>

serverVars == <<pc, request, models, response>>

studyVars == <<sParams, sMain, sRef, sPrev>>

Init ==
    /\ pc = [r \in Requests |-> "idle"]
    /\ request = [r \in Requests |-> NoRequest]
    /\ models = [r \in Requests |-> Empty]
    /\ response = [r \in Requests |-> NoResponse]
    /\ sParams = ThermalParameters
    /\ sMain = Empty
    /\ sRef = Empty
    /\ sPrev = Empty

\* GET /analyze: model = ThermalModel()
AnalyzeDefault(r) ==
    /\ pc[r] = "idle"
    /\ request' = [request EXCEPT ![r] = [method |-> "GET", json |-> FALSE, data |-> Empty]]
    /\ models' = [models EXCEPT ![ModelRef(r)] = ThermalModel_init(Empty)]
    /\ pc' = [pc EXCEPT ![r] = "model"]
    /\ UNCHANGED <<response, studyVars>>

\* POST /analyze: model = ThermalModel(**params)
AnalyzeCustom(r, body) ==
    /\ pc[r] = "idle"
    /\ request' = [request EXCEPT ![r] = [method |-> "POST", json |-> body.json, data |-> body.data]]
    /\ models' = [models EXCEPT ![ModelRef(r)] =
                      ThermalModel_init(filter_params(get_json_or_empty(body)))]
    /\ pc' = [pc EXCEPT ![r] = "model"]
    /\ UNCHANGED <<response, studyVars>>

\* return jsonify(model.calculate())
Calculate(r) ==
    /\ pc[r] = "model"
    /\ response' = [response EXCEPT ![r] = Respond(models[ModelRef(r)])]
    /\ pc' = [pc EXCEPT ![r] = "done"]
    /\ UNCHANGED <<request, models, studyVars>>

\* the answer is delivered and the handler's model object is released
Close(r) ==
    /\ pc[r] = "done"
    /\ pc' = [pc EXCEPT ![r] = "idle"]
    /\ request' = [request EXCEPT ![r] = NoRequest]
    /\ models' = [models EXCEPT ![ModelRef(r)] = Empty]
    /\ response' = [response EXCEPT ![r] = NoResponse]
    /\ UNCHANGED studyVars

Next ==
    \/ \E r \in Requests : AnalyzeDefault(r)
    \/ \E r \in Requests, body \in PostBodies : AnalyzeCustom(r, body)
    \/ \E r \in Requests : Calculate(r)
    \/ \E r \in Requests : Close(r)

Spec == Init /\ [][Next]_vars

----------------------------------------------------------------------------

InitStudy ==
    /\ pc = [r \in Requests |-> "idle"]
    /\ request = [r \in Requests |-> NoRequest]
    /\ models = [r \in Requests |-> Empty]
    /\ response = [r \in Requests |-> NoResponse]
    /\ sParams \in StudyGrid
    /\ sMain = Empty
    /\ sRef = Empty
    /\ sPrev = Empty

\* src/app/main.py: read every property of ThermalModel(sParams)
EvalMain ==
    /\ sMain = Empty
    /\ sMain' = properties(sParams)
    /\ UNCHANGED <<sParams, sRef, sPrev, serverVars>>

\* src/app/thermal_model.py: ThermalModel(sParams).get_full_analysis()
EvalRef ==
    /\ sRef = Empty
    /\ sRef' = get_full_analysis(sParams)
    /\ UNCHANGED <<sParams, sMain, sPrev, serverVars>>

\* a new ThermalModel that differs from the evaluated one in air_velocity
SetVelocity(v) ==
    /\ sMain # Empty
    /\ v # sParams.air_velocity
    /\ sPrev' = [params |-> sParams, main |-> sMain]
    /\ sParams' = ThermalModel_init([k \in ParamNames |->
                      IF k = "air_velocity" THEN v ELSE sParams[k]])
    /\ sMain' = Empty
    /\ sRef' = Empty
    /\ UNCHANGED serverVars

\* a new ThermalModel that differs from the evaluated one in tdp
SetTdp(t) ==
    /\ sMain # Empty
    /\ t # sParams.tdp
    /\ sPrev' = [params |-> sParams, main |-> sMain]
    /\ sParams' = ThermalModel_init([k \in ParamNames |->
                      IF k = "tdp" THEN t ELSE sParams[k]])
    /\ sMain' = Empty
    /\ sRef' = Empty
    /\ UNCHANGED serverVars

NextStudy ==
    \/ EvalMain
    \/ EvalRef
    \/ \E v \in Velocities : SetVelocity(v)
    \/ \E t \in Tdps : SetTdp(t)

SpecStudy == InitStudy /\ [][NextStudy]_vars

----------------------------------------------------------------------------
(* Properties *)

FAbs(a) == [m |-> Abs(a.m), e |-> a.e]

\* a <= b
FLe(a, b) == ~FLt(b, a)

\* relative tolerance of a comparison of two floats computed in different ways
RelTol == Dec(5, -5)

\* a and b agree up to rounding
FClose(a, b) == FLe(FAbs(FSub(a, b)), FMul(RelTol, FAbs(a)))

\* the body of a request restricted to the 20 parameter names
Restricted(req) ==
    LET data == IF req.json THEN req.data ELSE Empty
    IN  [k \in (DOMAIN data) \cap ParamNames |-> data[k]]

Done(r) == pc[r] = "done"

Reported(r) == response[r].json.results.junction_temperature_C

\* C1: the analysis of the all-default parameter set reports a junction
\* temperature within 0.1 degrees of 80.96 and the flow regime Laminar
C1_ReferenceRegression ==
    \A r \in Requests :
        (Done(r) /\ DOMAIN Restricted(request[r]) = {}) =>
            /\ response[r].status = 200
            /\ FLe(FAbs(FSub(Reported(r), Dec(8096, -2))), Dec(1, -1))
            /\ response[r].json.physics_debug.flow_analysis.flow_regime = "Laminar"

C1_Witness ==
    \E r \in Requests :
        Done(r) /\ request[r].method = "GET" /\ response[r].status = 200

\* num_fins = 1, num_fins = 0, or fins as wide as the sink or wider
NonPhysical(p) ==
    \/ p.num_fins = 1
    \/ p.num_fins = 0
    \/ FLe(p.sink_width, FMul(p.fin_thickness, ToF(p.num_fins)))

\* C2: a parameter set with num_fins = 1, num_fins = 0 or
\* fin_thickness * num_fins >= sink_width is answered with an error, never
\* with a report
C2_DomainError ==
    \A r \in Requests :
        (Done(r) /\ NonPhysical(ThermalParametersInit(Restricted(request[r])))) =>
            response[r].status # 200

Evaluated == sMain # Empty /\ sMain.error = "none"

\* C3: the regime label is Laminar and the laminar correlation gives the
\* Nusselt number exactly when the Reynolds number is below 2300; at 2300
\* and above the label is Turbulent and the turbulent correlation is used,
\* in both variants of the model
C3_SameThreshold ==
    /\ Evaluated =>
         LET re == sMain.reynolds_number
             laminar == FLt(re, ToF(2300))
         IN  /\ (sMain.flow_regime = "Laminar") <=> laminar
             /\ (sMain.flow_regime = "Turbulent") <=> ~laminar
             /\ sMain.nusselt_number =
                  IF laminar
                  THEN nusselt_laminar(re, sParams.prandtl_number,
                                       sMain.fin_spacing, sParams.sink_length)
                  ELSE nusselt_turbulent(re, sParams.prandtl_number)
    /\ sRef # Empty =>
         LET re == sRef.heat_transfer.reynolds_number
             laminar == FLt(re, ToF(2300))
         IN  /\ (sRef.heat_transfer.flow_regime = "Laminar") <=> laminar
             /\ (sRef.heat_transfer.flow_regime = "Turbulent") <=> ~laminar
             /\ sRef.heat_transfer.nusselt_number =
                  IF laminar
                  THEN nusselt_laminar(re, sParams.prandtl_number,
                                       sRef.input_parameters.fin_spacing_m,
                                       sParams.sink_length)
                  ELSE nusselt_turbulent(re, sParams.prandtl_number)

\* a Reynolds number of exactly 2300, evaluated by both variants
C3_Witness ==
    /\ Evaluated
    /\ sRef # Empty
    /\ sMain.reynolds_number = ToF(2300)
    /\ sMain.flow_regime = "Turbulent"

\* C4: the total resistance is r_jc + r_tim + r_conduction + r_convection
\* and the junction temperature is ambient_temp + tdp * that total, up to
\* rounding, in both variants of the model
C4_Additivity ==
    /\ Evaluated =>
         LET total == FAdd(FAdd(FAdd(sParams.r_jc, sMain.r_tim), sMain.r_conduction),
                           sMain.r_convection)
         IN  /\ FClose(sMain.total_resistance, total)
             /\ FClose(sMain.junction_temperature,
                       FAdd(sParams.ambient_temp, FMul(sParams.tdp, total)))
    /\ sRef # Empty =>
         LET res == sRef.thermal_resistances
             total == FAdd(FAdd(FAdd(res.r_jc_c_per_w, res.r_tim_c_per_w),
                                res.r_conduction_c_per_w), res.r_convection_c_per_w)
         IN  /\ FClose(res.r_total_c_per_w, total)
             /\ FClose(sRef.results.junction_temperature_c,
                       FAdd(sParams.ambient_temp, FMul(sParams.tdp, total)))

C4_Witness ==
    /\ Evaluated
    /\ sRef # Empty
    /\ sMain.flow_regime = "Turbulent"
    /\ sParams.tdp # ThermalParameters.tdp

\* the current and the previous model are evaluated and differ in field f only
PairIn(f) ==
    /\ Evaluated
    /\ sPrev # Empty
    /\ sPrev.params[f] # sParams[f]
    /\ \A k \in ParamNames \ {f} : sPrev.params[k] = sParams[k]

\* junction temperature of the model with the lower / the higher value of f
TempAtLower(f) ==
    IF FLt(sParams[f], sPrev.params[f])
    THEN sMain.junction_temperature ELSE sPrev.main.junction_temperature

TempAtHigher(f) ==
    IF FLt(sParams[f], sPrev.params[f])
    THEN sPrev.main.junction_temperature ELSE sMain.junction_temperature

\* C5 as stated: for air velocities v1 < v2, all else equal, the junction
\* temperature at v2 is strictly lower than at v1, also across the regimes
C5_VelocityMonotone ==
    PairIn("air_velocity") => FLt(TempAtHigher("air_velocity"), TempAtLower("air_velocity"))

\* C5 amended: for air velocities v1 < v2 in the same flow regime, all else
\* equal, the junction temperature at v2 is strictly lower than at v1
C5_MonotoneWithinRegime ==
    (PairIn("air_velocity") /\ sPrev.main.flow_regime = sMain.flow_regime) =>
        FLt(TempAtHigher("air_velocity"), TempAtLower("air_velocity"))

C5_Witness ==
    /\ PairIn("air_velocity")
    /\ sPrev.main.flow_regime = "Turbulent"
    /\ sMain.flow_regime = "Turbulent"

IsExample(r) == Restricted(request[r]) = ExampleBody

IsDefault(r) == DOMAIN Restricted(request[r]) = {}

\* C6 as stated: tdp = 200, air_velocity = 2.0, num_fins = 80 gives a
\* strictly lower junction temperature than the defaults
C6_ExampleCooler ==
    \A r1, r2 \in Requests :
        (Done(r1) /\ Done(r2) /\ IsExample(r1) /\ IsDefault(r2)) =>
            FLt(Reported(r1), Reported(r2))

\* C6 amended: tdp = 200, air_velocity = 2.0, num_fins = 80 gives a strictly
\* higher junction temperature than the defaults
C6_ExampleHotter ==
    \A r1, r2 \in Requests :
        (Done(r1) /\ Done(r2) /\ IsExample(r1) /\ IsDefault(r2)) =>
            FLt(Reported(r2), Reported(r1))

C6_Witness ==
    \E r1, r2 \in Requests :
        /\ Done(r1) /\ Done(r2) /\ IsExample(r1) /\ IsDefault(r2)
        /\ response[r1].status = 200 /\ response[r2].status = 200

\* C7: for tdp1 < tdp2, all else equal, the junction temperature at tdp2 is
\* strictly higher than at tdp1
C7_TdpMonotone ==
    PairIn("tdp") => FLt(TempAtLower("tdp"), TempAtHigher("tdp"))

C7_Witness == PairIn("tdp") /\ sMain.flow_regime = "Laminar"

\* C8: the answer to a call depends only on the parameter set of that call,
\* and two calls with the same parameter set are answered identically,
\* whatever calls ran before, between or interleaved with them
C8_CallsIndependent ==
    /\ \A r \in Requests :
         Done(r) =>
             LET own == Respond(ThermalParametersInit(Restricted(request[r])))
             IN  /\ response[r].status = own.status
                 /\ response[r] = own
    /\ \A r1, r2 \in Requests :
         (Done(r1) /\ Done(r2) /\ Restricted(request[r1]) = Restricted(request[r2])) =>
             /\ response[r1].status = response[r2].status
             /\ response[r1] = response[r2]

C8_Witness ==
    \E r1, r2 \in Requests :
        /\ r1 # r2 /\ Done(r1) /\ Done(r2)
        /\ Restricted(request[r1]) = Restricted(request[r2])
        /\ IsExample(r1)

C10_Variants ==
    (Evaluated /\ sRef # Empty) =>
        /\ sMain.fin_spacing = sRef.input_parameters.fin_spacing_m
        /\ sMain.reynolds_number = sRef.heat_transfer.reynolds_number
        /\ sMain.flow_regime = sRef.heat_transfer.flow_regime
        /\ sMain.nusselt_number = sRef.heat_transfer.nusselt_number
        /\ sMain.convection_coefficient = sRef.heat_transfer.convection_coefficient_w_m2k
        /\ sMain.r_tim = sRef.thermal_resistances.r_tim_c_per_w
        /\ sMain.r_conduction = sRef.thermal_resistances.r_conduction_c_per_w
        /\ FClose(sMain.base_exposed_area, calculate_base_exposed_area(sParams))
        /\ FClose(sMain.total_convection_area,
                  FAdd(sRef.heat_transfer.total_convection_area_m2,
                       FMul(FMul(ToF(sParams.num_fins), sParams.fin_thickness),
                            sParams.sink_length)))
        /\ sMain.total_convection_area # sRef.heat_transfer.total_convection_area_m2

C10_Witness ==
    /\ Evaluated
    /\ sRef # Empty
    /\ sParams.num_fins = 80
    /\ sMain.flow_regime = "Laminar"

====
